---- MODULE Spec2Model ----
(***************************************************************************)
(* One call of FromSingleFileMixin.from_single_file                        *)
(* (src/src/diffusers/loaders/single_file.py), from entry to the return of *)
(* the pipeline or the raise of an error, together with the helpers of the *)
(* same file: load_single_file_sub_model, _legacy_load_safety_checker and  *)
(* _map_component_types_to_config_dict.                                    *)
(*                                                                         *)
(* Python dicts are functions: a key is present iff it is in the DOMAIN.   *)
(* Python strings whose characters matter (the config identity) are        *)
(* sequences of characters. Objects are named by where they come from.     *)
(***************************************************************************)
EXTENDS Naturals, Sequences, FiniteSets, TLC

VARIABLES
    pc,                 \* position of the call in from_single_file
    call,               \* the keyword arguments as the caller passed them
    kwargs,             \* the kwargs dict, keys leave it as they are popped
    config,             \* local `config` (317-380)
    original_config,    \* local `original_config`
    prediction_type,    \* local `prediction_type` (352)
    is_legacy_loading,  \* local `is_legacy_loading` (340, 420)
    checkpoint,         \* local `checkpoint` (366)
    default_pretrained_model_name_or_path,
    config_dict,        \* the manifest (402, 417, 424)
    passed_class_obj,   \* component instances the caller passed (430)
    init_dict,          \* component specs to load (433, 450)
    todo,               \* what is left of the iteration over init_dict (452)
    class_name,         \* loop variable `class_name` of line 452
    init_kwargs,        \* keyword set for the pipeline constructor
    error,              \* the exception the call ended with
    events              \* what the call has done so far, in order

vars == <<pc, call, kwargs, config, original_config, prediction_type,
          is_legacy_loading, checkpoint, default_pretrained_model_name_or_path,
          config_dict, passed_class_obj, init_dict, todo, class_name,
          init_kwargs, error, events>>

-----------------------------------------------------------------------------
(* Python values *)

\* Every value a Python name can hold is a tuple here: a string is the
\* sequence of its characters, an object is tagged with where it comes from.
None == <<"None">>
True == <<"True">>
False == <<"False">>
Absent == <<"absent">>      \* in the enumeration of calls: key not passed
EmptyDict == <<>>
\* library and class names are plain strings; null in a manifest entry
NoneName == "None"
Unbound == "unbound"        \* a local name no assignment has bound yet

Get(d, k, default) == IF k \in DOMAIN d THEN d[k] ELSE default
Pop(d, k) == [x \in DOMAIN d \ {k} |-> d[x]]
PopAll(d, ks) == [x \in DOMAIN d \ ks |-> d[x]]
Put(d, k, v) == [x \in DOMAIN d \cup {k} |-> IF x = k THEN v ELSE d[x]]
Update(d, e) == [x \in DOMAIN d \cup DOMAIN e |-> IF x \in DOMAIN e THEN e[x] ELSE d[x]]
Restrict(d, ks) == [x \in DOMAIN d \cap ks |-> d[x]]

RECURSIVE Count(_, _)
\* str.count(ch)
Count(s, ch) ==
    IF s = <<>> THEN 0
    ELSE (IF Head(s) = ch THEN 1 ELSE 0) + Count(Tail(s), ch)

RECURSIVE Filter(_, _)
\* the elements of sequence s that are in set ks, in the order of s
Filter(s, ks) ==
    IF s = <<>> THEN <<>>
    ELSE (IF Head(s) \in ks THEN <<Head(s)>> ELSE <<>>) \o Filter(Tail(s), ks)

Reverse(s) == [i \in 1..Len(s) |-> s[Len(s) + 1 - i]]
Range(s) == {s[i] : i \in DOMAIN s}

-----------------------------------------------------------------------------
(* Bounds *)

\* the config identities tried have 0..MaxSlashes '/' characters
MaxSlashes == 2

RECURSIVE Identity(_)
\* "a", "a/a", "a/a/a", ...: an identity with k '/' characters
Identity(k) == IF k = 0 THEN <<"a">> ELSE Identity(k - 1) \o <<"/", "a">>

Identities == {Identity(k) : k \in 0..MaxSlashes}

-----------------------------------------------------------------------------
(* The classes a manifest or a type hint can name, by what the code asks   *)
(* of them: issubclass(...) against the mixins and hasattr(from_pretrained)*)

Bases(cls) ==
    CASE cls = "UNet2DConditionModel" ->
            {"FromOriginalModelMixin", "ModelMixin", "torch.nn.Module"}
      [] cls = "CLIPTextModel" -> {"PreTrainedModel", "torch.nn.Module"}
      [] cls = "StableDiffusionSafetyChecker" -> {"PreTrainedModel", "torch.nn.Module"}
      [] cls = "PNDMScheduler" -> {"SchedulerMixin"}
      [] cls = "DDIMScheduler" -> {"SchedulerMixin"}
      [] cls = "CLIPTokenizer" -> {"PreTrainedTokenizer"}
      [] OTHER -> {}

issubclass(cls, base) == base \in Bases(cls)

hasattr_from_pretrained(cls) ==
    cls \in {"UNet2DConditionModel", "CLIPTextModel", "StableDiffusionSafetyChecker",
             "PNDMScheduler", "DDIMScheduler", "CLIPTokenizer", "CLIPImageProcessor"}

\* is_transformers_available() and transformers_version >= 4.20.0: a class of
\* transformers can only be named when the library is installed
is_transformers_available == TRUE

\* single_file_utils.is_clip_model_in_single_file: the class is a CLIP text
\* model and the checkpoint holds the CLIP text-encoder keys
is_clip_model_in_single_file(cls, ckpt) ==
    cls = "CLIPTextModel" /\ ckpt = <<"checkpoint", "with_clip">>

Checkpoints == {<<"checkpoint", "with_clip">>, <<"checkpoint", "without_clip">>}

-----------------------------------------------------------------------------
(* The target pipeline class: its constructor and _optional_components     *)

pipeline_class == "TargetPipeline"

\* parameters of __init__ without a default, in the order of the signature
RequiredParameters == <<"unet", "text_encoder", "scheduler", "safety_checker", "feature_extractor">>
\* parameters of __init__ with a default
DefaultParameters == <<"requires_safety_checker">>
_optional_components == {"safety_checker"}

\* pipeline_class._get_signature_types(): the annotation of each parameter
_get_signature_types ==
    [unet |-> "UNet2DConditionModel",
     text_encoder |-> "CLIPTextModel",
     scheduler |-> "KarrasDiffusionSchedulers",
     safety_checker |-> "StableDiffusionSafetyChecker",
     feature_extractor |-> "CLIPImageProcessor",
     requires_safety_checker |-> "bool"]

\* pipeline_class._get_signature_keys(cls): (expected_modules, optional_kwargs)
expected_modules ==
    Range(RequiredParameters) \cup (Range(DefaultParameters) \cap _optional_components)
optional_kwargs == Range(DefaultParameters) \ _optional_components

NullSpec == <<NoneName, NoneName>>


\* the loop body of _map_component_types_to_config_dict for one component,
\* whose type is component_value[0]
component_spec_of_type(component_type) ==
    LET is_diffusers_model == issubclass(component_type, "ModelMixin")
        is_scheduler_enum == component_type = "KarrasDiffusionSchedulers"
        is_scheduler == issubclass(component_type, "SchedulerMixin")
        is_transformers_model ==
            is_transformers_available /\ issubclass(component_type, "PreTrainedModel")
        is_transformers_tokenizer ==
            is_transformers_available /\ issubclass(component_type, "PreTrainedTokenizer")
    IN  IF is_diffusers_model THEN <<"diffusers", component_type>>
        ELSE IF is_scheduler_enum \/ is_scheduler THEN
            (IF is_scheduler_enum THEN <<"diffusers", "DDIMScheduler">>
             ELSE <<"diffusers", component_type>>)
        ELSE IF is_transformers_model \/ is_transformers_tokenizer THEN
            <<"transformers", component_type>>
        ELSE IF is_transformers_model /\ component_type = "StableDiffusionSafetyChecker" THEN
            <<"stable_diffusion", component_type>>
        ELSE NullSpec

_map_component_types_to_config_dict(component_types) ==
    [component_name \in DOMAIN component_types \ {"self"} |->
        component_spec_of_type(component_types[component_name])]

\* lines 412-418: the manifest built from the constructor's signature
synthesized_config_dict ==
    LET component_types ==
            Restrict(_get_signature_types, DOMAIN _get_signature_types \ _optional_components)
    IN  Put(_map_component_types_to_config_dict(component_types),
            "_class_name", <<pipeline_class>>)

\* ConfigMixin.extract_init_dict: the entries of the manifest that are
\* parameters of the constructor; private keys ("_class_name") are dropped
extract_init_dict(cfg, kw) ==
    LET expected_keys == Range(RequiredParameters) \cup Range(DefaultParameters)
    IN  [key \in expected_keys \cap (DOMAIN kw \cup DOMAIN cfg) |->
            IF key \in DOMAIN kw THEN kw[key] ELSE cfg[key]]

-----------------------------------------------------------------------------
(* What the environment can answer *)

Prune(r) == [k \in {x \in DOMAIN r : r[x] # Absent} |-> r[k]]

\* the content of a model_index.json, in a directory or on the hub
Manifests ==
    {Prune(r) : r \in
        [unet : {<<"diffusers", "UNet2DConditionModel">>, NullSpec},
         text_encoder : {<<"transformers", "CLIPTextModel">>,
                         <<"diffusers", "VaeImageProcessor">>},
         scheduler : {<<"diffusers", "PNDMScheduler">>},
         safety_checker : {<<"stable_diffusion", "StableDiffusionSafetyChecker">>, NullSpec},
         feature_extractor : {<<"transformers", "CLIPImageProcessor">>},
         requires_safety_checker : {True},
         _class_name : {<<pipeline_class>>},
         _ignore_files : {<<"ignore">>}]}

\* what fetch_diffusers_config(checkpoint) can name as the repository
InferredIdentities == {Identity(1), Identity(MaxSlashes)}

\* what fetch_original_config can return: the parsed YAML, which is an empty
\* dict or None when the file holds no key
FetchedOriginalConfigs == {<<"original_config", "yaml">>, EmptyDict, None}

-----------------------------------------------------------------------------
(* The calls: the keyword arguments of from_single_file. The transport     *)
(* arguments and torch_dtype are handed on unchanged and are left out.     *)

ComponentNames == Range(RequiredParameters)
Instance(name) == <<"caller", name>>

\* calls that vary the config sources
ConfigCalls ==
    [config : {Absent, <<>>} \cup Identities,
     original_config : {Absent, <<"v1-inference.yaml">>},
     original_config_file : {Absent, <<"v1-inference.yaml">>},
     scaling_factor : {Absent},
     prediction_type : {Absent},
     load_safety_checker : {Absent},
     scheduler_type : {Absent},
     requires_safety_checker : {Absent},
     unet : {Absent},
     text_encoder : {Absent},
     scheduler : {Absent},
     safety_checker : {Absent},
     feature_extractor : {Absent}]

\* calls that pass both config sources, whatever else they pass
BothConfigCalls ==
    [config : {<<>>, Identity(1)},
     original_config : {Absent, <<"v1-inference.yaml">>},
     original_config_file : {<<"v1-inference.yaml">>},
     scaling_factor : {Absent, <<"0.18215">>},
     prediction_type : {Absent},
     load_safety_checker : {Absent, True},
     scheduler_type : {Absent, <<"pndm">>},
     requires_safety_checker : {Absent},
     unet : {Absent, None},
     text_encoder : {Absent},
     scheduler : {Absent, Instance("scheduler")},
     safety_checker : {Absent},
     feature_extractor : {Absent}]

\* calls that pass component instances
InstanceCalls ==
    [config : {Absent},
     original_config : {Absent},
     original_config_file : {Absent},
     scaling_factor : {Absent},
     prediction_type : {Absent},
     load_safety_checker : {Absent, True},
     scheduler_type : {Absent, <<"pndm">>},
     requires_safety_checker : {Absent},
     unet : {Absent},
     text_encoder : {Absent},
     scheduler : {Absent, Instance("scheduler")},
     safety_checker : {Absent, None, Instance("safety_checker")},
     feature_extractor : {Absent, Instance("feature_extractor")}]

\* calls that disable components with None
DisablingCalls ==
    [config : {Absent},
     original_config : {Absent},
     original_config_file : {Absent},
     scaling_factor : {Absent},
     prediction_type : {Absent},
     load_safety_checker : {Absent},
     scheduler_type : {Absent, <<"pndm">>},
     requires_safety_checker : {Absent},
     unet : {Absent, None},
     text_encoder : {Absent, None},
     scheduler : {Absent, None},
     safety_checker : {Absent, None},
     feature_extractor : {Absent, None}]

\* calls that vary the deprecated arguments
DeprecatedCalls ==
    [config : {Absent},
     original_config : {Absent},
     original_config_file : {Absent, <<"v1-inference.yaml">>},
     scaling_factor : {Absent, <<"0.18215">>},
     prediction_type : {Absent, <<"v_prediction">>},
     load_safety_checker : {Absent, True, False},
     scheduler_type : {Absent, <<"pndm">>},
     requires_safety_checker : {Absent, False},
     unet : {Absent},
     text_encoder : {Absent},
     scheduler : {Absent},
     safety_checker : {Absent},
     feature_extractor : {Absent}]

Calls ==
    {Prune(r) : r \in ConfigCalls \cup BothConfigCalls \cup InstanceCalls
                      \cup DisablingCalls \cup DeprecatedCalls}

-----------------------------------------------------------------------------
(* from_single_file *)

Init ==
    /\ pc = "start"
    /\ call \in Calls
    /\ kwargs = call
    /\ config = None
    /\ original_config = None
    /\ prediction_type = None
    /\ is_legacy_loading = FALSE
    /\ checkpoint = None
    /\ default_pretrained_model_name_or_path = None
    /\ config_dict = EmptyDict
    /\ passed_class_obj = EmptyDict
    /\ init_dict = EmptyDict
    /\ todo = <<>>
    /\ class_name = Unbound
    /\ init_kwargs = EmptyDict
    /\ error = "none"
    /\ events = <<>>

Raise(e) == pc' = "raised" /\ error' = e

\* the errors of from_single_file and load_single_file_sub_model
BothConfigsError == "ValueError: only one of config and original_config"
InvalidIdentityError == "ValueError: neither a valid local path nor a valid repo id"
UnsupportedComponentError == "ValueError: no supported loading method"
MissingModulesError == "ValueError: pipeline expected more components"
UnboundClassNameError == "UnboundLocalError: class_name"
\* the errors of the collaborators
CollaboratorErrors ==
    {"fetch_original_config failed", "load_single_file_checkpoint failed",
     "hf_hub_download failed", "loader failed"}

\* a slip: `if config and original_config`, the truth values instead of `is not None`
both_configs_truthy(c, oc) == (c # None /\ c # <<>>) /\ (oc # None /\ oc # <<>>)

\* line 342
both_configs_provided(c, oc) == c # None /\ oc # None

\* lines 317-340: the config arguments leave kwargs; the deprecated alias
\* original_config_file replaces original_config
PopArguments ==
    /\ pc = "start"
    /\ LET original_config_file == Get(kwargs, "original_config_file", None)
       IN  /\ config' = Get(kwargs, "config", None)
           /\ original_config' =
                IF original_config_file # None THEN original_config_file
                ELSE Get(kwargs, "original_config", None)
           /\ events' =
                IF original_config_file # None
                THEN Append(events, <<"deprecate", "original_config_file">>)
                ELSE events
    /\ kwargs' = PopAll(kwargs, {"original_config_file", "config", "original_config"})
    /\ is_legacy_loading' = FALSE
    /\ pc' = "check_config"
    /\ UNCHANGED <<call, prediction_type, checkpoint, default_pretrained_model_name_or_path,
                   config_dict, passed_class_obj, init_dict, todo, class_name,
                   init_kwargs, error>>

\* lines 342-343
RaiseBothConfigs ==
    /\ pc = "check_config"
    /\ both_configs_provided(config, original_config)
    /\ Raise(BothConfigsError)
    /\ UNCHANGED <<call, kwargs, config, original_config, prediction_type,
                   is_legacy_loading, checkpoint, default_pretrained_model_name_or_path,
                   config_dict, passed_class_obj, init_dict, todo, class_name,
                   init_kwargs, events>>

\* lines 342-357: scaling_factor and prediction_type stay in kwargs
DeprecatedModelKwargs ==
    /\ pc = "check_config"
    /\ ~both_configs_provided(config, original_config)
    /\ LET scaling_factor == Get(kwargs, "scaling_factor", None)
           e1 == IF scaling_factor # None
                 THEN Append(events, <<"deprecate", "scaling_factor">>) ELSE events
       IN  /\ prediction_type' = Get(kwargs, "prediction_type", None)
           /\ events' = IF prediction_type' # None
                        THEN Append(e1, <<"deprecate", "prediction_type">>) ELSE e1
    /\ pc' = "fetch_original_config"
    /\ UNCHANGED <<call, kwargs, config, original_config, is_legacy_loading, checkpoint,
                   default_pretrained_model_name_or_path, config_dict, passed_class_obj,
                   init_dict, todo, class_name, init_kwargs, error>>

\* lines 359-360
FetchOriginalConfig ==
    /\ pc = "fetch_original_config"
    /\ IF original_config # None
       THEN /\ original_config' \in FetchedOriginalConfigs
            /\ events' = Append(events, <<"io", "fetch_original_config">>)
       ELSE UNCHANGED <<original_config, events>>
    /\ pc' = "load_checkpoint"
    /\ UNCHANGED <<call, kwargs, config, prediction_type, is_legacy_loading, checkpoint,
                   default_pretrained_model_name_or_path, config_dict, passed_class_obj,
                   init_dict, todo, class_name, init_kwargs, error>>

\* line 360: the file is missing, the URL is invalid, the download fails
FetchOriginalConfigFails ==
    /\ pc = "fetch_original_config"
    /\ original_config # None
    /\ events' = Append(events, <<"io", "fetch_original_config">>)
    /\ Raise("fetch_original_config failed")
    /\ UNCHANGED <<call, kwargs, config, original_config, prediction_type,
                   is_legacy_loading, checkpoint, default_pretrained_model_name_or_path,
                   config_dict, passed_class_obj, init_dict, todo, class_name, init_kwargs>>

\* lines 362-376
LoadCheckpoint ==
    /\ pc = "load_checkpoint"
    /\ checkpoint' \in Checkpoints
    /\ events' = Append(events, <<"io", "load_single_file_checkpoint">>)
    /\ pc' = "infer_config"
    /\ UNCHANGED <<call, kwargs, config, original_config, prediction_type,
                   is_legacy_loading, default_pretrained_model_name_or_path, config_dict,
                   passed_class_obj, init_dict, todo, class_name, init_kwargs, error>>

\* lines 366-376: the checkpoint cannot be read or downloaded
LoadCheckpointFails ==
    /\ pc = "load_checkpoint"
    /\ events' = Append(events, <<"io", "load_single_file_checkpoint">>)
    /\ Raise("load_single_file_checkpoint failed")
    /\ UNCHANGED <<call, kwargs, config, original_config, prediction_type,
                   is_legacy_loading, checkpoint, default_pretrained_model_name_or_path,
                   config_dict, passed_class_obj, init_dict, todo, class_name, init_kwargs>>

\* lines 380-381: `config if config`, so None and "" both mean: infer
InferConfig ==
    /\ pc = "infer_config"
    /\ \E inferred \in InferredIdentities :
        LET truthy == config # None /\ config # <<>>
            path == IF truthy THEN config ELSE inferred
        IN  /\ config' = [pretrained_model_name_or_path |-> path]
            /\ default_pretrained_model_name_or_path' = path
    /\ pc' = "resolve_config"
    /\ UNCHANGED <<call, kwargs, original_config, prediction_type, is_legacy_loading,
                   checkpoint, config_dict, passed_class_obj, init_dict, todo, class_name,
                   init_kwargs, error, events>>

\* a slip: one '/' too many allowed
is_invalid_repo_id_above_two(path) == Count(path, "/") > 2

\* line 385
is_invalid_repo_id(path) == Count(path, "/") > 1

\* lines 383, 422-424: os.path.isdir(path) holds
LoadLocalConfig ==
    /\ pc = "resolve_config"
    /\ config_dict' \in Manifests
    /\ events' = events \o <<<<"isdir", "True">>, <<"io", "load_config">>>>
    /\ pc' = "partition"
    /\ UNCHANGED <<call, kwargs, config, original_config, prediction_type,
                   is_legacy_loading, checkpoint, default_pretrained_model_name_or_path,
                   passed_class_obj, init_dict, todo, class_name, init_kwargs, error>>

\* a slip: the count of '/' tested only after the download was tried
RaiseInvalidIdentityAfterDownload ==
    /\ pc = "resolve_config"
    /\ Count(default_pretrained_model_name_or_path, "/") > 1
    /\ events' = events \o <<<<"isdir", "False">>, <<"io", "hf_hub_download">>>>
    /\ Raise(InvalidIdentityError)
    /\ UNCHANGED <<call, kwargs, config, original_config, prediction_type,
                   is_legacy_loading, checkpoint, default_pretrained_model_name_or_path,
                   config_dict, passed_class_obj, init_dict, todo, class_name,
                   init_kwargs>>

\* lines 383-389: not a directory, and not owner/name
RaiseInvalidIdentity ==
    /\ pc = "resolve_config"
    /\ is_invalid_repo_id(default_pretrained_model_name_or_path)
    /\ events' = Append(events, <<"isdir", "False">>)
    /\ Raise(InvalidIdentityError)
    /\ UNCHANGED <<call, kwargs, config, original_config, prediction_type,
                   is_legacy_loading, checkpoint, default_pretrained_model_name_or_path,
                   config_dict, passed_class_obj, init_dict, todo, class_name,
                   init_kwargs>>

\* lines 390-402: not a directory; hf_hub_download returns the file
DownloadConfig ==
    /\ pc = "resolve_config"
    /\ ~is_invalid_repo_id(default_pretrained_model_name_or_path)
    /\ config_dict' \in Manifests
    /\ events' = events \o <<<<"isdir", "False">>, <<"io", "hf_hub_download">>>>
    /\ pc' = "partition"
    /\ UNCHANGED <<call, kwargs, config, original_config, prediction_type,
                   is_legacy_loading, checkpoint, default_pretrained_model_name_or_path,
                   passed_class_obj, init_dict, todo, class_name, init_kwargs, error>>

\* a slip: line 420 left out
SynthesizeConfigWithoutFlag ==
    /\ pc = "resolve_config"
    /\ Count(default_pretrained_model_name_or_path, "/") <= 1
    /\ config_dict' = synthesized_config_dict
    /\ events' = events \o <<<<"isdir", "False">>, <<"io", "hf_hub_download">>,
                              <<"warning", "legacy_loading">>>>
    /\ pc' = "partition"
    /\ UNCHANGED <<call, kwargs, config, original_config, prediction_type, checkpoint,
                   is_legacy_loading, default_pretrained_model_name_or_path,
                   passed_class_obj, init_dict, todo, class_name, init_kwargs, error>>

\* lines 404-420: hf_hub_download raises LocalEntryNotFoundError
SynthesizeConfig ==
    /\ pc = "resolve_config"
    /\ ~is_invalid_repo_id(default_pretrained_model_name_or_path)
    /\ config_dict' = synthesized_config_dict
    /\ is_legacy_loading' = TRUE
    /\ events' = events \o <<<<"isdir", "False">>, <<"io", "hf_hub_download">>,
                              <<"warning", "legacy_loading">>>>
    /\ pc' = "partition"
    /\ UNCHANGED <<call, kwargs, config, original_config, prediction_type, checkpoint,
                   default_pretrained_model_name_or_path, passed_class_obj, init_dict,
                   todo, class_name, init_kwargs, error>>

\* lines 391-401: hf_hub_download raises anything else
DownloadConfigFails ==
    /\ pc = "resolve_config"
    /\ ~is_invalid_repo_id(default_pretrained_model_name_or_path)
    /\ events' = events \o <<<<"isdir", "False">>, <<"io", "hf_hub_download">>>>
    /\ Raise("hf_hub_download failed")
    /\ UNCHANGED <<call, kwargs, config, original_config, prediction_type,
                   is_legacy_loading, checkpoint, default_pretrained_model_name_or_path,
                   config_dict, passed_class_obj, init_dict, todo, class_name, init_kwargs>>

-----------------------------------------------------------------------------
(* lines 427-450: the caller's components and pipeline kwargs leave kwargs, *)
(* the manifest is cut down to the components to load                       *)

\* a slip: the test of lines 446-447 left out
load_module_ignores_none(name, value, passed) == value[1] # NoneName

\* lines 443-448
load_module(name, value, passed) ==
    IF value[1] = NoneName THEN FALSE
    ELSE IF name \in DOMAIN passed /\ passed[name] = None THEN FALSE
    ELSE TRUE

\* the order in which the for loop of line 452 meets the names of init_dict:
\* extract_init_dict fills init_dict from a set of parameter names
IterationOrders == {RequiredParameters, Reverse(RequiredParameters)}

\* a slip: `if k in kwargs and kwargs[k] is not None`
passed_components_without_none(kw) ==
    Restrict(kw, {k \in expected_modules \cap DOMAIN kw : kw[k] # None})

\* line 430
passed_components(kw) == Restrict(kw, expected_modules)

PartitionKwargs ==
    /\ pc = "partition"
    /\ LET cfg == Pop(config_dict, "_ignore_files")
           passed == passed_components(kwargs)
           passed_pipe_kwargs == Restrict(kwargs, optional_kwargs)
           rest == PopAll(kwargs, expected_modules \cup optional_kwargs)
           extracted == extract_init_dict(cfg, rest)
           from_config == Restrict(extracted, optional_kwargs \ _optional_components)
           specs == PopAll(extracted, DOMAIN from_config)
           kept == {k \in DOMAIN specs : load_module(k, specs[k], passed)}
       IN  /\ config_dict' = cfg
           /\ passed_class_obj' = passed
           /\ kwargs' = rest
           /\ init_kwargs' = Update(from_config, passed_pipe_kwargs)
           /\ init_dict' = Restrict(specs, kept)
           /\ \E order \in IterationOrders : todo' = Filter(order, kept)
    /\ pc' = "load_components"
    /\ UNCHANGED <<call, config, original_config, prediction_type, is_legacy_loading,
                   checkpoint, default_pretrained_model_name_or_path, class_name,
                   error, events>>

-----------------------------------------------------------------------------
(* load_single_file_sub_model *)

\* a slip: the from_pretrained branch tried before the CLIP branch
load_strategy_pretrained_first(class_obj, ckpt) ==
    LET is_transformers_model ==
            is_transformers_available /\ issubclass(class_obj, "PreTrainedModel")
        is_diffusers_single_file_model == issubclass(class_obj, "FromOriginalModelMixin")
    IN  IF is_diffusers_single_file_model THEN "from_single_file"
        ELSE IF hasattr_from_pretrained(class_obj) THEN "from_pretrained"
        ELSE IF is_transformers_model /\ is_clip_model_in_single_file(class_obj, ckpt)
        THEN "create_diffusers_clip_model_from_ldm"
        ELSE "unsupported"

\* lines 68-114: which loader the class gets
load_strategy(class_obj, ckpt) ==
    LET is_transformers_model ==
            is_transformers_available /\ issubclass(class_obj, "PreTrainedModel")
        is_diffusers_single_file_model == issubclass(class_obj, "FromOriginalModelMixin")
    IN  IF is_diffusers_single_file_model THEN "from_single_file"
        ELSE IF is_transformers_model /\ is_clip_model_in_single_file(class_obj, ckpt)
        THEN "create_diffusers_clip_model_from_ldm"
        ELSE IF ~hasattr_from_pretrained(class_obj) THEN "unsupported"
        ELSE "from_pretrained"

\* a slip: lines 83-84 left out, the path is handed on whatever original_config is
config_argument_keeps_path(strategy, oc, path) == path

\* lines 83-84 and 89, 100, 133: the config path handed to the loader
config_argument(strategy, oc, path) ==
    IF strategy = "from_single_file" /\ oc # None /\ oc # EmptyDict THEN None ELSE path

\* lines 86-94, 97-105, 132-138: the call of the loader, as logged
loader_call(name, class_obj, ckpt, oc, path, legacy) ==
    LET strategy == load_strategy(class_obj, ckpt)
    IN  <<"load", name, strategy,
          IF strategy = "from_single_file" THEN oc ELSE None,
          config_argument(strategy, oc, path),
          IF legacy THEN "is_legacy_loading" ELSE "not_legacy_loading">>

\* lines 116-123
fallback_warning(name, class_obj, ckpt) ==
    IF load_strategy(class_obj, ckpt) = "from_pretrained" /\ issubclass(class_obj, "ModelMixin")
    THEN <<<<"warning", name>>>> ELSE <<>>

-----------------------------------------------------------------------------
(* lines 452-476: one iteration of the loop over init_dict *)

\* a slip: the test of line 456 left out, the passed component is loaded
PassThroughComponentReloads ==
    /\ pc = "load_components" /\ todo # <<>>
    /\ LET name == Head(todo)
           class_obj == init_dict[name][2]
       IN  /\ name \in DOMAIN passed_class_obj
           /\ class_name' = class_obj
           /\ events' = Append(events, <<"load", name, "from_pretrained", None,
                                         default_pretrained_model_name_or_path,
                                         "not_legacy_loading">>)
           /\ init_kwargs' = Put(init_kwargs, name, <<"from_pretrained", class_obj>>)
    /\ todo' = Tail(todo)
    /\ UNCHANGED <<pc, call, kwargs, config, original_config, prediction_type,
                   is_legacy_loading, checkpoint, default_pretrained_model_name_or_path,
                   config_dict, passed_class_obj, init_dict, error>>

\* lines 456-457, 476
PassThroughComponent ==
    /\ pc = "load_components" /\ todo # <<>>
    /\ LET name == Head(todo)
       IN  /\ name \in DOMAIN passed_class_obj
           /\ class_name' = init_dict[name][2]
           /\ init_kwargs' = Put(init_kwargs, name, passed_class_obj[name])
           /\ events' = Append(events, <<"pass_through", name>>)
    /\ todo' = Tail(todo)
    /\ UNCHANGED <<pc, call, kwargs, config, original_config, prediction_type,
                   is_legacy_loading, checkpoint, default_pretrained_model_name_or_path,
                   config_dict, passed_class_obj, init_dict, error>>

\* lines 459-476: the loader returns the component
LoadSubModel ==
    /\ pc = "load_components" /\ todo # <<>>
    /\ LET name == Head(todo)
           class_obj == init_dict[name][2]
           strategy == load_strategy(class_obj, checkpoint)
       IN  /\ name \notin DOMAIN passed_class_obj
           /\ strategy # "unsupported"
           /\ class_name' = class_obj
           /\ events' = events \o fallback_warning(name, class_obj, checkpoint)
                \o <<loader_call(name, class_obj, checkpoint, original_config,
                                 default_pretrained_model_name_or_path, is_legacy_loading)>>
           /\ init_kwargs' = Put(init_kwargs, name, <<strategy, class_obj>>)
    /\ todo' = Tail(todo)
    /\ UNCHANGED <<pc, call, kwargs, config, original_config, prediction_type,
                   is_legacy_loading, checkpoint, default_pretrained_model_name_or_path,
                   config_dict, passed_class_obj, init_dict, error>>

\* lines 86, 97, 132: the loader raises (weights or config files not found)
LoadSubModelFails ==
    /\ pc = "load_components" /\ todo # <<>>
    /\ LET name == Head(todo)
           class_obj == init_dict[name][2]
           strategy == load_strategy(class_obj, checkpoint)
       IN  /\ name \notin DOMAIN passed_class_obj
           /\ strategy # "unsupported"
           /\ class_name' = class_obj
           /\ events' = events \o fallback_warning(name, class_obj, checkpoint)
                \o <<loader_call(name, class_obj, checkpoint, original_config,
                                 default_pretrained_model_name_or_path, is_legacy_loading)>>
    /\ Raise("loader failed")
    /\ UNCHANGED <<call, kwargs, config, original_config, prediction_type,
                   is_legacy_loading, checkpoint, default_pretrained_model_name_or_path,
                   config_dict, passed_class_obj, init_dict, todo, init_kwargs>>

\* a slip: the component without a loader is logged and skipped
RaiseUnsupportedComponentSkips ==
    /\ pc = "load_components" /\ todo # <<>>
    /\ LET name == Head(todo)
           class_obj == init_dict[name][2]
       IN  /\ name \notin DOMAIN passed_class_obj
           /\ load_strategy(class_obj, checkpoint) = "unsupported"
           /\ class_name' = class_obj
           /\ events' = Append(events, <<"warning", name>>)
    /\ todo' = Tail(todo)
    /\ UNCHANGED <<pc, call, kwargs, config, original_config, prediction_type,
                   is_legacy_loading, checkpoint, default_pretrained_model_name_or_path,
                   config_dict, passed_class_obj, init_dict, init_kwargs, error>>

\* lines 107-114
RaiseUnsupportedComponent ==
    /\ pc = "load_components" /\ todo # <<>>
    /\ LET name == Head(todo)
           class_obj == init_dict[name][2]
       IN  /\ name \notin DOMAIN passed_class_obj
           /\ load_strategy(class_obj, checkpoint) = "unsupported"
           /\ class_name' = class_obj
    /\ Raise(UnsupportedComponentError)
    /\ UNCHANGED <<call, kwargs, config, original_config, prediction_type,
                   is_legacy_loading, checkpoint, default_pretrained_model_name_or_path,
                   config_dict, passed_class_obj, init_dict, todo, init_kwargs, events>>

-----------------------------------------------------------------------------
(* lines 478-489: the components no iteration has set *)

missing_modules == expected_modules \ DOMAIN init_kwargs

\* a slip: `&` for `<=`, one excusable name excuses all
some_missing_passed_or_optional(missing, passed) ==
    missing \cap (DOMAIN passed \cup _optional_components) # {}

\* a slip: the test of line 482 left out
missing_always_filled(missing, passed) == TRUE

\* line 482
missing_are_passed_or_optional(missing, passed) ==
    missing \subseteq (DOMAIN passed \cup _optional_components)

\* lines 478-484: nothing is missing, or all of it is passed or optional
FillMissingModules ==
    /\ pc = "load_components" /\ todo = <<>>
    /\ missing_modules # {} => missing_are_passed_or_optional(missing_modules, passed_class_obj)
    /\ init_kwargs' = Update(init_kwargs,
            [module \in missing_modules |-> Get(passed_class_obj, module, None)])
    /\ events' = Append(events, <<"check", "missing_modules">>)
    /\ pc' = "load_safety_checker"
    /\ UNCHANGED <<call, kwargs, config, original_config, prediction_type,
                   is_legacy_loading, checkpoint, default_pretrained_model_name_or_path,
                   config_dict, passed_class_obj, init_dict, todo, class_name, error>>

\* lines 485-489
RaiseMissingModules ==
    /\ pc = "load_components" /\ todo = <<>>
    /\ missing_modules # {}
    /\ ~missing_are_passed_or_optional(missing_modules, passed_class_obj)
    /\ events' = Append(events, <<"check", "missing_modules">>)
    /\ Raise(MissingModulesError)
    /\ UNCHANGED <<call, kwargs, config, original_config, prediction_type,
                   is_legacy_loading, checkpoint, default_pretrained_model_name_or_path,
                   config_dict, passed_class_obj, init_dict, todo, class_name, init_kwargs>>

-----------------------------------------------------------------------------
(* lines 491-521: the deprecated arguments *)

\* lines 143-156
_legacy_load_safety_checker ==
    [safety_checker |-> <<"from_pretrained", "StableDiffusionSafetyChecker">>,
     feature_extractor |-> <<"from_pretrained", "AutoImageProcessor">>]

\* lines 492-503
LegacySafetyChecker ==
    /\ pc = "load_safety_checker"
    /\ LET load_safety_checker == Get(kwargs, "load_safety_checker", None)
       IN  IF load_safety_checker # None
           THEN /\ events' = events \o <<<<"deprecate", "load_safety_checker">>,
                                         <<"legacy", "safety_checker">>>>
                /\ init_kwargs' = Update(init_kwargs, _legacy_load_safety_checker)
           ELSE UNCHANGED <<events, init_kwargs>>
    /\ kwargs' = Pop(kwargs, "load_safety_checker")
    /\ pc' = "scheduler_type"
    /\ UNCHANGED <<call, config, original_config, prediction_type, is_legacy_loading,
                   checkpoint, default_pretrained_model_name_or_path, config_dict,
                   passed_class_obj, init_dict, todo, class_name, error>>

\* single_file_utils._legacy_load_scheduler_from_scheduler_type, by its arguments
_legacy_load_scheduler_from_scheduler_type(pipeline_class_name, scheduler_type) ==
    [scheduler |-> <<"legacy_scheduler", scheduler_type, pipeline_class_name>>]

\* a slip: setdefault for update, a scheduler already set is kept
LegacySchedulerKeepsExisting ==
    /\ pc = "scheduler_type"
    /\ LET scheduler_type == Get(kwargs, "scheduler_type", None)
       IN  IF scheduler_type # None
           THEN /\ class_name # Unbound
                /\ events' = events \o <<<<"deprecate", "scheduler_type">>,
                                         <<"legacy", "scheduler", class_name>>>>
                /\ init_kwargs' = Update(
                        _legacy_load_scheduler_from_scheduler_type(class_name, scheduler_type),
                        init_kwargs)
           ELSE UNCHANGED <<events, init_kwargs>>
    /\ kwargs' = Pop(kwargs, "scheduler_type")
    /\ pc' = "construct"
    /\ UNCHANGED <<call, config, original_config, prediction_type, is_legacy_loading,
                   checkpoint, default_pretrained_model_name_or_path, config_dict,
                   passed_class_obj, init_dict, todo, class_name, error>>

\* lines 505-521
LegacyScheduler ==
    /\ pc = "scheduler_type"
    /\ LET scheduler_type == Get(kwargs, "scheduler_type", None)
       IN  IF scheduler_type # None
           THEN /\ class_name # Unbound
                /\ events' = events \o <<<<"deprecate", "scheduler_type">>,
                                         <<"legacy", "scheduler", class_name>>>>
                /\ init_kwargs' = Update(init_kwargs,
                        _legacy_load_scheduler_from_scheduler_type(class_name, scheduler_type))
           ELSE UNCHANGED <<events, init_kwargs>>
    /\ kwargs' = Pop(kwargs, "scheduler_type")
    /\ pc' = "construct"
    /\ UNCHANGED <<call, config, original_config, prediction_type, is_legacy_loading,
                   checkpoint, default_pretrained_model_name_or_path, config_dict,
                   passed_class_obj, init_dict, todo, class_name, error>>

\* line 515: class_name is the loop variable of line 452; no iteration, no value
RaiseUnboundClassName ==
    /\ pc = "scheduler_type"
    /\ Get(kwargs, "scheduler_type", None) # None
    /\ class_name = Unbound
    /\ events' = Append(events, <<"deprecate", "scheduler_type">>)
    /\ kwargs' = Pop(kwargs, "scheduler_type")
    /\ Raise(UnboundClassNameError)
    /\ UNCHANGED <<call, config, original_config, prediction_type, is_legacy_loading,
                   checkpoint, default_pretrained_model_name_or_path, config_dict,
                   passed_class_obj, init_dict, todo, class_name, init_kwargs>>

\* lines 523-528
ConstructPipeline ==
    /\ pc = "construct"
    /\ events' = Append(events, <<"construct", pipeline_class>>)
    /\ pc' = "returned"
    /\ UNCHANGED <<call, kwargs, config, original_config, prediction_type,
                   is_legacy_loading, checkpoint, default_pretrained_model_name_or_path,
                   config_dict, passed_class_obj, init_dict, todo, class_name,
                   init_kwargs, error>>

-----------------------------------------------------------------------------
Next ==
    \/ PopArguments
    \/ RaiseBothConfigs
    \/ DeprecatedModelKwargs
    \/ FetchOriginalConfig
    \/ FetchOriginalConfigFails
    \/ LoadCheckpoint
    \/ LoadCheckpointFails
    \/ InferConfig
    \/ LoadLocalConfig
    \/ RaiseInvalidIdentity
    \/ DownloadConfig
    \/ SynthesizeConfig
    \/ DownloadConfigFails
    \/ PartitionKwargs
    \/ PassThroughComponent
    \/ LoadSubModel
    \/ LoadSubModelFails
    \/ RaiseUnsupportedComponent
    \/ FillMissingModules
    \/ RaiseMissingModules
    \/ LegacySafetyChecker
    \/ LegacyScheduler
    \/ RaiseUnboundClassName
    \/ ConstructPipeline

Spec == Init /\ [][Next]_vars

-----------------------------------------------------------------------------
(* What the call has done *)

Happened(event) == \E i \in DOMAIN events : events[i] = event
EventsOfKind(kind) == {events[i][2] : i \in {j \in DOMAIN events : events[j][1] = kind}}
\* the operations that may read files or the network, as invoked so far
IOInvoked == EventsOfKind("io")
ManifestObtained == {"load_config", "hf_hub_download"} \cap IOInvoked # {}
Stopped == pc \in {"raised", "returned"}

-----------------------------------------------------------------------------
(* C1 *)

CallSuppliesBothConfigs ==
    /\ "config" \in DOMAIN call
    /\ {"original_config", "original_config_file"} \cap DOMAIN call # {}

\* C1: a call that passes config together with original_config or with the
\* alias original_config_file never gets past the check of line 342, ends
\* with the mutual-exclusion error and with no other, and has invoked no
\* operation that reads a file or the network (no original-config fetch, no
\* checkpoint, no manifest), whatever the other arguments are.
C1_BothConfigsRaiseBeforeIO ==
    CallSuppliesBothConfigs =>
        /\ pc \in {"start", "check_config", "raised"}
        /\ pc = "raised" => error = BothConfigsError
        /\ pc # "raised" => ENABLED Next
        /\ IOInvoked = {}

C1_Witness ==
    /\ CallSuppliesBothConfigs
    /\ {"original_config_file", "scheduler_type", "unet"} \subseteq DOMAIN call
    /\ pc = "raised"
    /\ error = BothConfigsError

-----------------------------------------------------------------------------
(* C2 *)

IdentitySlashes == Count(default_pretrained_model_name_or_path, "/")
IdentityResolved ==
    /\ default_pretrained_model_name_or_path # None
    /\ pc # "resolve_config"

\* C2 as stated: an identity with two or more '/' always ends in the
\* unresolvable-identity error, and no manifest is loaded or downloaded.
C2_TwoSlashesAlwaysRaise ==
    (IdentityResolved /\ IdentitySlashes >= 2) =>
        /\ pc = "raised"
        /\ error = InvalidIdentityError
        /\ ~ManifestObtained

\* C2, amended: an identity with two or more '/' that is not an existing
\* directory ends in the unresolvable-identity error and no manifest is
\* loaded or downloaded; one that is an existing directory has its manifest
\* read from the directory, is never downloaded and never ends in that error.
C2_TwoSlashesRaiseUnlessDirectory ==
    /\ (default_pretrained_model_name_or_path # None /\ ~Stopped) => ENABLED Next
    /\ (IdentityResolved /\ IdentitySlashes >= 2) =>
        IF Happened(<<"isdir", "False">>)
        THEN /\ pc = "raised"
             /\ error = InvalidIdentityError
             /\ ~ManifestObtained
        ELSE /\ Happened(<<"isdir", "True">>)
             /\ "load_config" \in IOInvoked
             /\ "hf_hub_download" \notin IOInvoked
             /\ error # InvalidIdentityError

C2_Witness ==
    /\ "config" \in DOMAIN call
    /\ call["config"] = default_pretrained_model_name_or_path
    /\ IdentitySlashes >= 2
    /\ Happened(<<"isdir", "False">>)
    /\ error = InvalidIdentityError

-----------------------------------------------------------------------------
(* The component phase, as the claims speak of it *)

\* the calls of a loader by load_single_file_sub_model for the component
LoadEvents(name) ==
    {i \in DOMAIN events : events[i][1] = "load" /\ events[i][2] = name}
AllLoadEvents == {i \in DOMAIN events : events[i][1] = "load"}
ConstructorCalled == Happened(<<"construct", pipeline_class>>)
\* the null-spec filter of line 450 has run
Filtered ==
    \/ pc \in {"load_components", "load_safety_checker", "scheduler_type",
               "construct", "returned"}
    \/ pc = "raised" /\ error \in {UnsupportedComponentError, MissingModulesError,
                                   UnboundClassNameError, "loader failed"}
PassedNone(name) == name \in DOMAIN call /\ call[name] = None
PassedInstance(name) == name \in DOMAIN call /\ call[name] # None

-----------------------------------------------------------------------------
(* C3 *)

\* a component the constructor requires, neither optional nor passed, whose
\* manifest entry is [None, None]
RequiredWithNullSpec ==
    \E name \in expected_modules \ (_optional_components \cup DOMAIN call) :
        /\ name \in DOMAIN config_dict
        /\ config_dict[name] = NullSpec

\* C3 as stated: with such a component the call ends in the
\* under-specified-manifest error and the constructor is never called.
C3_NullRequiredRaisesMissing ==
    (Filtered /\ RequiredWithNullSpec) =>
        /\ ~ConstructorCalled
        /\ Stopped => (pc = "raised" /\ error = MissingModulesError)

\* C3, amended: with such a component the constructor is never called and
\* the call never gets past the check of lines 478-489; it ends in the
\* under-specified-manifest error unless the loading of another component
\* raised before, inside the loop (the unsupported-component error or the
\* loader's own error).
C3_NullRequiredNeverConstructs ==
    (Filtered /\ RequiredWithNullSpec) =>
        /\ ~ConstructorCalled
        /\ pc \in {"load_components", "raised"}
        /\ pc = "load_components" => ENABLED Next
        /\ pc = "raised" =>
            \/ error = MissingModulesError /\ todo = <<>>
            \/ error \in {UnsupportedComponentError, "loader failed"} /\ todo # <<>>

C3_Witness ==
    /\ RequiredWithNullSpec
    /\ "unet" \in DOMAIN config_dict /\ config_dict["unet"] = NullSpec
    /\ AllLoadEvents # {}
    /\ pc = "raised"
    /\ error = MissingModulesError

-----------------------------------------------------------------------------
(* C4 *)

\* hf_hub_download ended in LocalEntryNotFoundError
CacheMissed == Happened(<<"warning", "legacy_loading">>)

\* C4: after a cache miss of the manifest download the call goes on, with
\* the manifest built from the types of the constructor's signature and with
\* is_legacy_loading set; is_legacy_loading is set on no other path, and every
\* loader is called with the flag of its path.
C4_CacheMissFallsBackToLegacyLoading ==
    /\ is_legacy_loading = CacheMissed
    /\ CacheMissed =>
        /\ pc # "resolve_config"
        /\ error \notin {InvalidIdentityError, "hf_hub_download failed"}
        /\ "hf_hub_download" \in IOInvoked /\ "load_config" \notin IOInvoked
        /\ config_dict =
            [unet |-> <<"diffusers", "UNet2DConditionModel">>,
             text_encoder |-> <<"transformers", "CLIPTextModel">>,
             scheduler |-> <<"diffusers", "DDIMScheduler">>,
             feature_extractor |-> <<"None", "None">>,
             requires_safety_checker |-> <<"None", "None">>,
             _class_name |-> <<"TargetPipeline">>]
    /\ \A i \in AllLoadEvents :
        events[i][6] = IF CacheMissed THEN "is_legacy_loading" ELSE "not_legacy_loading"

C4_Witness ==
    /\ CacheMissed
    /\ is_legacy_loading
    /\ \E i \in LoadEvents("text_encoder") :
        /\ events[i][3] = "create_diffusers_clip_model_from_ldm"
        /\ events[i][6] = "is_legacy_loading"
    /\ pc = "returned"

-----------------------------------------------------------------------------
(* C5 *)

LegacyReplacement(name) ==
    \/ /\ name \in {"safety_checker", "feature_extractor"}
       /\ "load_safety_checker" \in DOMAIN call
       /\ init_kwargs[name] = <<"from_pretrained",
             IF name = "safety_checker" THEN "StableDiffusionSafetyChecker"
             ELSE "AutoImageProcessor">>
    \/ /\ name = "scheduler"
       /\ "scheduler_type" \in DOMAIN call
       /\ init_kwargs[name][1] = "legacy_scheduler"

-----------------------------------------------------------------------------
(* C6 *)

-----------------------------------------------------------------------------
(* C7 *)

\* the pipeline constructor is being called, or has been
AtConstructor == pc \in {"construct", "returned"}

\* C7: when the constructor is called, every name of expected_modules is a
\* key of init_kwargs, bound to an object or to None, and to None only if
\* the name is optional or was passed by the caller; a call that ends in
\* the under-specified-manifest error has a name that is neither set, nor
\* optional, nor passed, and has not called the constructor.
C7_ConstructorGetsEveryExpectedModule ==
    /\ AtConstructor =>
        \A name \in expected_modules :
            /\ name \in DOMAIN init_kwargs
            /\ init_kwargs[name] = None =>
                name \in _optional_components \/ name \in DOMAIN call
    /\ error = MissingModulesError =>
        /\ ~ConstructorCalled
        /\ \E name \in expected_modules \ DOMAIN init_kwargs :
            name \notin _optional_components /\ name \notin DOMAIN call

C7_Witness ==
    /\ pc = "construct"
    /\ PassedNone("unet")
    /\ init_kwargs["unet"] = None
    /\ "safety_checker" \notin DOMAIN call
    /\ init_kwargs["safety_checker"] = None
    /\ init_kwargs["text_encoder"] # None
    /\ AllLoadEvents # {}

-----------------------------------------------------------------------------
(* C8 *)

DeprecatedArguments ==
    {"original_config_file", "scaling_factor", "prediction_type",
     "load_safety_checker", "scheduler_type"}
OnlySchedulerTypeDeprecated == DOMAIN call \cap DeprecatedArguments = {"scheduler_type"}
\* the runs of _legacy_load_scheduler_from_scheduler_type
LegacySchedulerEvents ==
    {i \in DOMAIN events : events[i][1] = "legacy" /\ events[i][2] = "scheduler"}
DeprecationNotices == {i \in DOMAIN events : events[i][1] = "deprecate"}

\* C8: without scheduler_type the legacy scheduler path never runs and no
\* scheduler of that path is in the keyword set. When it runs, the loop over
\* the components is over and the missing-component check has passed. With
\* scheduler_type as the only deprecated argument, the constructor gets the
\* scheduler built by that path from the scheduler_type of the call, whatever
\* was under scheduler before, and the call emits one deprecation notice,
\* never more.
C8_SchedulerTypeRunsLegacyPathLast ==
    /\ "scheduler_type" \notin DOMAIN call =>
        /\ LegacySchedulerEvents = {}
        /\ \A i \in DeprecationNotices : events[i][2] # "scheduler_type"
        /\ (AtConstructor /\ "scheduler" \in DOMAIN init_kwargs) =>
                init_kwargs["scheduler"][1] # "legacy_scheduler"
    /\ \A i \in LegacySchedulerEvents :
        /\ todo = <<>>
        /\ \E j \in 1..(i - 1) : events[j] = <<"check", "missing_modules">>
        /\ \A j \in DOMAIN events :
            events[j][1] \in {"load", "pass_through", "check"} => j < i
    /\ "scheduler_type" \in DOMAIN call =>
        /\ Cardinality(LegacySchedulerEvents) <= 1
        /\ AtConstructor =>
            /\ Cardinality(LegacySchedulerEvents) = 1
            /\ init_kwargs["scheduler"][1] = "legacy_scheduler"
            /\ init_kwargs["scheduler"][2] = call["scheduler_type"]
    /\ OnlySchedulerTypeDeprecated =>
        /\ Cardinality(DeprecationNotices) <= 1
        /\ (AtConstructor \/ error = UnboundClassNameError) =>
            /\ Cardinality(DeprecationNotices) = 1
            /\ \A i \in DeprecationNotices : events[i][2] = "scheduler_type"

C8_Witness ==
    /\ OnlySchedulerTypeDeprecated
    /\ pc = "returned"
    /\ LoadEvents("scheduler") # {}
    /\ LegacySchedulerEvents # {}
    /\ init_kwargs["scheduler"][1] = "legacy_scheduler"
    /\ Cardinality(DeprecationNotices) = 1

-----------------------------------------------------------------------------
(* C9 *)

CallSuppliesOriginalConfig ==
    {"original_config", "original_config_file"} \cap DOMAIN call # {}

\* C9 as stated: when the unresolvable-identity error is raised, no
\* operation that may access the network has been invoked in the call.
C9_InvalidIdentityRaisedBeforeAnyIO ==
    error = InvalidIdentityError => IOInvoked = {}

\* C9, amended: when the unresolvable-identity error is raised, no manifest
\* has been loaded or downloaded; the checkpoint has been acquired, and the
\* original config has been fetched exactly when the call passed one.
C9_InvalidIdentityRaisedBeforeManifestDownload ==
    error = InvalidIdentityError =>
        /\ ~ManifestObtained
        /\ Happened(<<"isdir", "False">>)
        /\ "load_single_file_checkpoint" \in IOInvoked
        /\ "fetch_original_config" \in IOInvoked <=> CallSuppliesOriginalConfig
        /\ checkpoint \in Checkpoints

C9_Witness ==
    /\ error = InvalidIdentityError
    /\ "config" \in DOMAIN call
    /\ call["config"] = default_pretrained_model_name_or_path
    /\ IOInvoked = {"load_single_file_checkpoint"}

-----------------------------------------------------------------------------
(* C10 *)

\* the class load_single_file_sub_model is given for the component
ClassOf(name) == init_dict[name][2]
SingleFileCapable(cls) == "FromOriginalModelMixin" \in Bases(cls)
ClipConvertible(cls) ==
    "PreTrainedModel" \in Bases(cls) /\ is_clip_model_in_single_file(cls, checkpoint)
\* the names the loop of line 452 has dealt with
Processed == IF Filtered THEN DOMAIN init_dict \ Range(todo) ELSE {}

\* C10: a component given to load_single_file_sub_model gets exactly one
\* loader call or the unsupported-component error: from_single_file exactly
\* when the class is single-file capable; the CLIP conversion only when it is
\* not, and the class is a transformers model whose keys are in the
\* checkpoint; from_pretrained only when neither holds and the class has
\* from_pretrained; the error exactly when none of the three applies. No
\* component has two loader calls, and components that are passed or
\* filtered out have none.
C10_OneStrategyByPrecedence ==
    /\ \A i \in AllLoadEvents :
        LET name == events[i][2]
            strategy == events[i][3]
            cls == ClassOf(name)
        IN  /\ name \in DOMAIN init_dict
            /\ name \notin DOMAIN passed_class_obj
            /\ LoadEvents(name) = {i}
            /\ strategy \in {"from_single_file", "create_diffusers_clip_model_from_ldm",
                             "from_pretrained"}
            /\ strategy = "from_single_file" <=> SingleFileCapable(cls)
            /\ strategy = "create_diffusers_clip_model_from_ldm" <=>
                    (~SingleFileCapable(cls) /\ ClipConvertible(cls))
            /\ strategy = "from_pretrained" =>
                    /\ hasattr_from_pretrained(cls)
                    /\ ~SingleFileCapable(cls) /\ ~ClipConvertible(cls)
    /\ \A name \in Processed :
        name \notin DOMAIN passed_class_obj => Cardinality(LoadEvents(name)) = 1
    /\ (Filtered /\ pc # "raised") =>
        \A name \in Range(todo) : LoadEvents(name) = {}
    /\ error = UnsupportedComponentError =>
        /\ todo # <<>>
        /\ LoadEvents(Head(todo)) = {}
        /\ Head(todo) \notin DOMAIN passed_class_obj
        /\ ~SingleFileCapable(ClassOf(Head(todo)))
        /\ ~ClipConvertible(ClassOf(Head(todo)))
        /\ ~hasattr_from_pretrained(ClassOf(Head(todo)))
    /\ (pc = "load_components" /\ todo # <<>>) =>
        /\ ENABLED Next
        /\ ( /\ Head(todo) \notin DOMAIN passed_class_obj
             /\ ~SingleFileCapable(ClassOf(Head(todo)))
             /\ ~ClipConvertible(ClassOf(Head(todo)))
             /\ ~hasattr_from_pretrained(ClassOf(Head(todo))) )
            => ~ENABLED (LoadSubModel \/ LoadSubModelFails \/ PassThroughComponent)

C10_Witness ==
    /\ pc = "returned"
    /\ \E i \in LoadEvents("unet") : events[i][3] = "from_single_file"
    /\ \E i \in LoadEvents("text_encoder") :
            events[i][3] = "create_diffusers_clip_model_from_ldm"
    /\ \E i \in LoadEvents("scheduler") : events[i][3] = "from_pretrained"
    /\ \E i \in LoadEvents("safety_checker") : events[i][3] = "from_pretrained"
    /\ Cardinality(AllLoadEvents) = 5

-----------------------------------------------------------------------------
(* C11 *)

\* a class with neither loading capability
WithoutLoader(cls) == ~SingleFileCapable(cls) /\ ~hasattr_from_pretrained(cls)
\* the components the dispatcher is to load whose class has none
ToLoadWithoutLoader ==
    {name \in DOMAIN init_dict \ DOMAIN passed_class_obj : WithoutLoader(ClassOf(name))}
LegacyEvents == {i \in DOMAIN events : events[i][1] = "legacy"}

\* C11: a component the dispatcher is to load whose class has neither
\* from_single_file nor from_pretrained is never loaded nor skipped: the
\* loop stops at it with the unsupported-component error. When that error
\* is raised, the component and all that follow it in the order of the loop
\* have no loader call and no entry in the keyword set, no legacy path has
\* run, the constructor has not been called, and the call does nothing more.
C11_UnsupportedComponentAbortsCall ==
    /\ \A name \in ToLoadWithoutLoader :
        /\ name \in Range(todo)
        /\ LoadEvents(name) = {}
        /\ name \notin DOMAIN init_kwargs
        /\ pc \in {"load_components", "raised"}
        /\ pc = "raised" => error \in {UnsupportedComponentError, "loader failed"}
        /\ LegacyEvents = {}
        /\ ~ConstructorCalled
    /\ (pc = "load_components" /\ todo # <<>> /\ Head(todo) \in ToLoadWithoutLoader) =>
        /\ ENABLED RaiseUnsupportedComponent
        /\ ~ENABLED (LoadSubModel \/ LoadSubModelFails \/ PassThroughComponent
                     \/ FillMissingModules \/ RaiseMissingModules)
    /\ error = UnsupportedComponentError =>
        /\ pc = "raised"
        /\ todo # <<>>
        /\ Head(todo) \in ToLoadWithoutLoader
        /\ \A name \in Range(todo) :
            /\ LoadEvents(name) = {}
            /\ ~Happened(<<"pass_through", name>>)
            /\ name \notin DOMAIN init_kwargs
        /\ LegacyEvents = {}
        /\ \A i \in DeprecationNotices :
            events[i][2] \notin {"load_safety_checker", "scheduler_type"}
        /\ ~ConstructorCalled
        /\ ~ENABLED Next

C11_Witness ==
    /\ error = UnsupportedComponentError
    /\ Head(todo) = "text_encoder"
    /\ ClassOf("text_encoder") = "VaeImageProcessor"
    /\ Len(todo) > 1
    /\ AllLoadEvents # {}
    /\ {"load_safety_checker", "scheduler_type"} \subseteq DOMAIN call

-----------------------------------------------------------------------------
(* C12 *)

\* the calls of a component's own from_single_file
SingleFileLoadEvents == {i \in AllLoadEvents : events[i][3] = "from_single_file"}
\* a config argument that is given: neither None nor empty
NonEmpty(value) == value # None /\ value # <<>>

\* C12: in every call of a component's from_single_file the arguments
\* original_config and config are never both non-empty: with a non-empty
\* original_config, which is then the one from_single_file fetched, config is
\* None; with original_config None or empty, config is the identity of the
\* manifest. The other loaders always get the identity.
C12_OriginalConfigExcludesConfigPath ==
    /\ \A i \in SingleFileLoadEvents :
        /\ ~(NonEmpty(events[i][4]) /\ NonEmpty(events[i][5]))
        /\ events[i][4] = original_config
        /\ NonEmpty(events[i][4]) =>
            /\ events[i][5] = None
            /\ CallSuppliesOriginalConfig
        /\ ~NonEmpty(events[i][4]) =>
            /\ events[i][5] = default_pretrained_model_name_or_path
            /\ NonEmpty(events[i][5])
    /\ \A i \in AllLoadEvents \ SingleFileLoadEvents :
        events[i][5] = default_pretrained_model_name_or_path

C12_Witness ==
    /\ pc = "returned"
    /\ CallSuppliesOriginalConfig
    /\ \E i \in SingleFileLoadEvents :
        /\ events[i][2] = "unet"
        /\ events[i][4] = <<"original_config", "yaml">>
        /\ events[i][5] = None
    /\ \E i \in LoadEvents("scheduler") :
        events[i][5] = default_pretrained_model_name_or_path

-----------------------------------------------------------------------------
(* C13 *)

\* C13: every run of the legacy scheduler path is given the name of the
\* target pipeline class as pipeline_class_name, whatever the loop has
\* loaded, and the path also runs when the loop had no component to meet.
\* Line 515 passes class_name, the loop variable of line 452: the class of
\* the last component the loop met, and no value at all after an empty loop.
C13_LegacySchedulerGetsPipelineClassName ==
    /\ \A i \in LegacySchedulerEvents : events[i][3] = pipeline_class
    /\ error # UnboundClassNameError

\* what line 515 passes instead: the class of the last name of the loop
C13_LegacySchedulerGetsLastComponentClass ==
    /\ LegacySchedulerEvents # {}
    /\ \A i \in LegacySchedulerEvents :
        /\ events[i][3] = class_name
        /\ events[i][3] \in {"CLIPImageProcessor", "UNet2DConditionModel"}
    /\ pc = "returned"

\* the empty loop: every component is passed as None
C13_EmptyLoopLeavesClassNameUnbound ==
    /\ error = UnboundClassNameError
    /\ init_dict = EmptyDict
    /\ class_name = Unbound
    /\ LegacySchedulerEvents = {}

-----------------------------------------------------------------------------
(* C14 *)

\* the names of expected_modules no iteration has set, besides the name
OtherMissing(name) == (expected_modules \ DOMAIN init_kwargs) \ {name}

====
